---- MODULE Spec2Model ----
(***************************************************************************)
(* A model of crossword_cli.py: the ThemeHelper operations                 *)
(* (validate_entry_length, analyze_theme, suggest_wordplay,                *)
(* generate_theme_entries) and the dispatch of main().                     *)
(*                                                                         *)
(* A Python str is a sequence of characters.  The alphabet is small but    *)
(* keeps the behaviours of the str methods the code calls: "s"/"S" are a   *)
(* cased pair, "ß" is a lower-case letter whose upper-case form is the two *)
(* letters "SS" (str.upper may lengthen a string), " " is the space that   *)
(* str.replace(" ", "") removes and "\t" is whitespace that only           *)
(* str.strip and str.split treat as a separator.                           *)
(***************************************************************************)
EXTENDS Integers, Sequences, FiniteSets, TLC

VARIABLES
    frame,          \* who called the running operation: "main" or "direct"
    pc,             \* the position of control
    argv,           \* the namespace argparse returns to main()
    exit_code,      \* the value main() returned, NoExit before it returns
    entry,          \* validate_entry_length: its argument
    validation,     \* validate_entry_length: the returned (valid, message)
    entries,        \* analyze_theme: its argument
    report,         \* analyze_theme: the returned results dict
    phrase,         \* suggest_wordplay / generate_theme_entries: base phrase
    max_results,    \* generate_theme_entries: max_results
    words,          \* generate_theme_entries: clean_phrase.split()
    widx,           \* generate_theme_entries: index of the word being looked up
    all_candidates, \* generate_theme_entries: all_candidates
    lookups,        \* the urlopen calls issued so far, with their outcome
    results,        \* suggest_wordplay / generate_theme_entries: results dict
    outcome,        \* "running", "returned", or "raised" (exception escaped)
    handled         \* main(): the commands whose branch was entered, in order

vars == <<frame, pc, argv, exit_code, entry, validation, entries, report,
          phrase, max_results, words, widx, all_candidates, lookups, results,
          outcome, handled>>

(***************************************************************************)
(* Program constants.                                                      *)
(***************************************************************************)
MIN_THEME_ENTRIES == 4
MAX_THEME_ENTRIES == 5
MIN_ENTRY_LENGTH == 8
MAX_ENTRY_LENGTH == 15
DEFAULT_MAX_RESULTS == 10
WORDPLAY_SLICE == 10

(***************************************************************************)
(* Bounds of the model.                                                    *)
(***************************************************************************)
MaxRun == 17        \* longest run of one letter in a validated entry
MaxAffix == 1       \* characters around the run in a validated entry
MaxEntries == 6     \* longest list given to analyze_theme
MaxResultsBound == 3 \* max_results ranges over 0..MaxResultsBound and the default

(***************************************************************************)
(* Python values.                                                          *)
(***************************************************************************)
PyNone == [type |-> "NoneType", v |-> <<>>]
Str(s) == [type |-> "str", v |-> s]
\* an int, by its decimal digits
PyInt(digits) == [type |-> "int", v |-> digits]
Bool(b) == [type |-> "bool", v |-> b]
List(l) == [type |-> "list", v |-> l]
\* the truth value Python gives a value in a condition
Truthy(x) ==
    IF x.type = "NoneType" THEN FALSE
    ELSE IF x.type = "bool" THEN x.v
    ELSE IF x.type = "int" THEN x.v # <<"0">>
    ELSE x.v # <<>>
NoExit == 0 - 1
Undefined == [undefined |-> TRUE]

SPACE == " "
TAB == "\t"
Alphabet == {"s", "S", "ß", SPACE, TAB}
Letters == {"s", "S", "ß"}
Whitespace == {SPACE, TAB}

Rep(c, n) == [i \in 1..n |-> c]

RECURSIVE Flatten(_)
Flatten(ss) == IF ss = <<>> THEN <<>> ELSE Head(ss) \o Flatten(Tail(ss))

\* str.replace(" ", ""): removes the space character only
RemoveSpaces(s) == SelectSeq(s, LAMBDA c : c # SPACE)

\* str.upper(): "ß" becomes "SS"
UpperChar(c) == IF c = "s" THEN <<"S">> ELSE IF c = "ß" THEN <<"S", "S">> ELSE <<c>>
Upper(s) == Flatten([i \in 1..Len(s) |-> UpperChar(s[i])])

\* str.lower(): "ß" is already lower case
LowerChar(c) == IF c = "S" THEN "s" ELSE c
Lower(s) == [i \in 1..Len(s) |-> LowerChar(s[i])]

\* str.strip(): removes leading and trailing whitespace
RECURSIVE LStrip(_)
LStrip(s) == IF s # <<>> /\ Head(s) \in Whitespace THEN LStrip(Tail(s)) ELSE s
RECURSIVE RStrip(_)
RStrip(s) ==
    IF s # <<>> /\ s[Len(s)] \in Whitespace THEN RStrip(SubSeq(s, 1, Len(s) - 1)) ELSE s
Strip(s) == RStrip(LStrip(s))

\* str.split(): the maximal runs of non-whitespace characters
RECURSIVE SplitFrom(_, _)
SplitFrom(s, cur) ==
    IF s = <<>> THEN (IF cur = <<>> THEN <<>> ELSE <<cur>>)
    ELSE IF Head(s) \in Whitespace
         THEN (IF cur = <<>> THEN <<>> ELSE <<cur>>) \o SplitFrom(Tail(s), <<>>)
         ELSE SplitFrom(Tail(s), Append(cur, Head(s)))
Split(s) == SplitFrom(s, <<>>)

RECURSIVE SumSeq(_)
SumSeq(ns) == IF ns = <<>> THEN 0 ELSE Head(ns) + SumSeq(Tail(ns))

Range(f) == {f[i] : i \in DOMAIN f}

\* sorted(): ascending order of a collection of distinct integers
RECURSIVE Sorted(_)
Sorted(S) ==
    IF S = {} THEN <<>>
    ELSE LET m == CHOOSE x \in S : \A y \in S : x <= y
         IN <<m>> \o Sorted(S \ {m})

(***************************************************************************)
(* ThemeHelper.validate_entry_length                                       *)
(***************************************************************************)
Message(kind, length) ==
    [kind |-> kind, length |-> length,
     range |-> <<MIN_ENTRY_LENGTH, MAX_ENTRY_LENGTH>>]

validate_entry_length_off_by_one(e) ==
    LET length == Len(RemoveSpaces(e))
    IN  IF length <= MIN_ENTRY_LENGTH
        THEN [valid |-> FALSE, message |-> Message("too short", length)]
        ELSE IF length > MAX_ENTRY_LENGTH
        THEN [valid |-> FALSE, message |-> Message("too long", length)]
        ELSE [valid |-> TRUE, message |-> Message("good length", length)]

validate_entry_length(e) ==
    LET length == Len(RemoveSpaces(e))
    IN  IF length < MIN_ENTRY_LENGTH
        THEN [valid |-> FALSE, message |-> Message("too short", length)]
        ELSE IF length > MAX_ENTRY_LENGTH
        THEN [valid |-> FALSE, message |-> Message("too long", length)]
        ELSE [valid |-> TRUE, message |-> Message("good length", length)]

(***************************************************************************)
(* ThemeHelper.analyze_theme                                               *)
(***************************************************************************)
\* the body of the loop over entries: one per-entry record
EntryRecord(e) ==
    LET clean_entry == Upper(RemoveSpaces(e))
        length == Len(clean_entry)
        v == validate_entry_length(e)
    IN  [text |-> e, length |-> length, valid |-> v.valid, message |-> v.message]

Note(kind, detail) == [kind |-> kind, detail |-> detail]

\* the entry-count check
CountWarnings_strict_upper(entry_count) ==
    IF entry_count < MIN_THEME_ENTRIES
    THEN <<Note("add more entries", <<>>)>>
    ELSE IF entry_count >= MAX_THEME_ENTRIES
    THEN <<Note("many entries", <<entry_count>>)>>
    ELSE <<>>

CountWarnings(entry_count) ==
    IF entry_count < MIN_THEME_ENTRIES
    THEN <<Note("add more entries", <<>>)>>
    ELSE IF entry_count > MAX_THEME_ENTRIES
    THEN <<Note("many entries", <<entry_count>>)>>
    ELSE <<>>

\* collections.Counter(lengths)
Counter(lengths) ==
    [l \in Range(lengths) |-> Cardinality({i \in DOMAIN lengths : lengths[i] = l})]

\* the paired-length symmetry check: the warnings and suggestions it adds
SymmetryCheck_all_lengths(lengths) ==
    IF Cardinality(Range(lengths)) = 1
    THEN [warnings |-> <<>>, suggestions |-> <<Note("same length", <<>>)>>]
    ELSE LET length_counts == Counter(lengths)
             unpaired_lengths == {l \in DOMAIN length_counts : length_counts[l] # 0}
         IN  IF unpaired_lengths # {}
             THEN [warnings |-> <<Note("unpaired lengths", Sorted(unpaired_lengths))>>,
                   suggestions |-> <<>>]
             ELSE [warnings |-> <<>>,
                   suggestions |-> <<Note("paired by length", <<>>)>>]

SymmetryCheck(lengths) ==
    IF Cardinality(Range(lengths)) = 1
    THEN [warnings |-> <<>>, suggestions |-> <<Note("same length", <<>>)>>]
    ELSE LET length_counts == Counter(lengths)
             unpaired_lengths == {l \in DOMAIN length_counts : length_counts[l] % 2 # 0}
         IN  IF unpaired_lengths # {}
             THEN [warnings |-> <<Note("unpaired lengths", Sorted(unpaired_lengths))>>,
                   suggestions |-> <<>>]
             ELSE [warnings |-> <<>>,
                   suggestions |-> <<Note("paired by length", <<>>)>>]

analyze_theme(es) ==
    LET recs == [i \in 1..Len(es) |-> EntryRecord(es[i])]
        lengths == [i \in 1..Len(es) |-> recs[i].length]
        sym == SymmetryCheck(lengths)
    IN  [entries |-> recs,
         total_length |-> SumSeq(lengths),
         entry_count |-> Len(es),
         warnings |-> CountWarnings(Len(es)) \o sym.warnings,
         suggestions |-> sym.suggestions]

(***************************************************************************)
(* The word-association service as the code sees it: a urlopen call either *)
(* raises, or yields a JSON array whose items the code reads with          *)
(* item.get("word").                                                       *)
(***************************************************************************)
Exc(class, msg) == [class |-> class, msg |-> msg]
NoExc == Exc("", "")

\* the classes an exception is an instance of
Bases(class) ==
    IF class = "HTTPError" THEN {"HTTPError", "URLError", "OSError", "Exception"}
    ELSE IF class = "URLError" THEN {"URLError", "OSError", "Exception"}
    ELSE IF class = "TimeoutError" THEN {"TimeoutError", "OSError", "Exception"}
    ELSE IF class = "OSError" THEN {"OSError", "Exception"}
    ELSE IF class = "JSONDecodeError" THEN {"JSONDecodeError", "ValueError", "Exception"}
    ELSE IF class = "AttributeError" THEN {"AttributeError", "Exception"}
    ELSE {class}
IsInstance(e, class) == class \in Bases(e.class)

\* what urlopen / read / json.loads may raise
LookupFailures ==
    { Exc("URLError", "<urlopen error [Errno 111] Connection refused>"),
      Exc("HTTPError", "HTTP Error 500: Internal Server Error"),
      Exc("TimeoutError", "The read operation timed out"),
      Exc("JSONDecodeError", "Expecting value: line 1 column 1 (char 0)"),
      Exc("OSError", "") }

\* the items of a response
Dict(word) == [kind |-> "dict", word |-> word]
NonDict == [kind |-> "str", word |-> PyNone]
W(s) == Dict(Str(s))

Responses ==
    { <<>>,
      <<W(<<"s", "s">>), W(<<"S", "S">>), W(<<"s", " ", "s">>)>>,
      <<W(<<"ß">>), W(<<"s", "s", "s">>), W(<<"s", "ß">>)>>,
      <<Dict(PyNone), Dict(Str(<<>>)), W(<<"S", "s", " ">>)>>,
      <<W(<<"s">>), Dict(PyInt(<<"5">>))>>,
      <<W(<<"s", "S">>), NonDict, W(<<" ", "s", "s">>)>>,
      [i \in 1..(DEFAULT_MAX_RESULTS + 2) |-> W(Rep(SPACE, i) \o <<"S", "s">>)] }

\* item.get("word") on the items of data, in order, up to the first item on
\* which it raises: the truthy words collected, and the exception if any
RECURSIVE ReadWords(_, _)
ReadWords(data, acc) ==
    IF data = <<>> THEN [words |-> acc, exc |-> NoExc]
    ELSE IF Head(data).kind # "dict"
    THEN [words |-> acc,
          exc |-> Exc("AttributeError", "'str' object has no attribute 'get'")]
    ELSE ReadWords(Tail(data),
                   IF Truthy(Head(data).word) THEN Append(acc, Head(data).word) ELSE acc)

Prefix(s, n) == SubSeq(s, 1, IF n < Len(s) THEN n ELSE Len(s))

\* an f-string: the concatenation of its parts, as the sequence of the
\* non-empty ones
FString(parts) == Str(SelectSeq(parts, LAMBDA p : p # ""))

\* one record of the log of urlopen calls
Lookup(mode, query, max, failed) ==
    [mode |-> mode, query |-> query, max |-> max, failed |-> failed]

(***************************************************************************)
(* ThemeHelper.suggest_wordplay                                            *)
(***************************************************************************)
\* the two except clauses of suggest_wordplay
WordplayHandler(e) ==
    IF IsInstance(e, "URLError")
    THEN [caught |-> TRUE,
          error |-> FString(<<"Network error: Unable to fetch synonyms. ", e.msg>>)]
    ELSE IF IsInstance(e, "Exception")
    THEN [caught |-> TRUE, error |-> FString(<<"Error fetching synonyms: ", e.msg>>)]
    ELSE [caught |-> FALSE, error |-> PyNone]

\* the list comprehension over data[:10]: all or nothing
WordplayWords(data) == ReadWords(Prefix(data, WORDPLAY_SLICE), <<>>)

ClientUnchanged == UNCHANGED <<frame, argv, exit_code, entry, validation, entries,
                               report, phrase, max_results, handled>>

\* entry of suggest_wordplay, up to the first urlopen
WordplayCall ==
    /\ pc = "suggest_wordplay"
    /\ results' = [synonyms |-> <<>>, related |-> <<>>, error |-> PyNone]
    /\ pc' = "wp_ml"
    /\ UNCHANGED <<words, widx, all_candidates, lookups, outcome>>
    /\ ClientUnchanged

\* leaving the try block of suggest_wordplay with exception e
WordplayFail(e) ==
    LET h == WordplayHandler(e)
    IN  /\ results' = [results EXCEPT !.error = h.error]
        /\ outcome' = IF h.caught THEN "returned" ELSE "raised"
        /\ pc' = "done"

\* a urlopen of suggest_wordplay: field receives the words of the response
WordplayLookup(at, mode, field, next) ==
    /\ pc = at
    /\ LET clean_phrase == Lower(Strip(phrase))
       IN \/ \E e \in LookupFailures :
               /\ lookups' = Append(lookups, Lookup(mode, clean_phrase, 15, TRUE))
               /\ WordplayFail(e)
          \/ \E data \in Responses :
               LET r == WordplayWords(data)
               IN  IF r.exc # NoExc
                   THEN /\ lookups' = Append(lookups, Lookup(mode, clean_phrase, 15, TRUE))
                        /\ WordplayFail(r.exc)
                   ELSE /\ lookups' = Append(lookups, Lookup(mode, clean_phrase, 15, FALSE))
                        /\ results' = [results EXCEPT ![field] = r.words]
                        /\ pc' = next
                        /\ outcome' = IF next = "done" THEN "returned" ELSE outcome
    /\ UNCHANGED <<words, widx, all_candidates>>
    /\ ClientUnchanged

WordplaySynonyms == WordplayLookup("wp_ml", "ml", "synonyms", "wp_rel_trg")
WordplayRelated == WordplayLookup("wp_rel_trg", "rel_trg", "related", "done")

(***************************************************************************)
(* ThemeHelper.generate_theme_entries                                      *)
(***************************************************************************)
\* the two except clauses of generate_theme_entries
GenerateHandler_url_only(e) ==
    IF IsInstance(e, "URLError")
    THEN [caught |-> TRUE,
          error |-> FString(<<"Network error: Unable to generate theme entries. ", e.msg>>)]
    ELSE [caught |-> FALSE, error |-> PyNone]

GenerateHandler(e) ==
    IF IsInstance(e, "URLError")
    THEN [caught |-> TRUE,
          error |-> FString(<<"Network error: Unable to generate theme entries. ", e.msg>>)]
    ELSE IF IsInstance(e, "Exception")
    THEN [caught |-> TRUE,
          error |-> FString(<<"Error generating theme entries: ", e.msg>>)]
    ELSE [caught |-> FALSE, error |-> PyNone]

\* "Remove duplicates while preserving order": candidate.lower() raises on a
\* word that is not a str
RECURSIVE DedupLoop(_, _, _)
DedupLoop(cands, seen, unique) ==
    IF cands = <<>> THEN [unique |-> unique, exc |-> NoExc]
    ELSE LET candidate == Head(cands)
         IN  IF candidate.type # "str"
             THEN [unique |-> unique,
                   exc |-> Exc("AttributeError", "'int' object has no attribute 'lower'")]
             ELSE IF Lower(candidate.v) \notin seen
             THEN DedupLoop(Tail(cands), seen \cup {Lower(candidate.v)},
                            Append(unique, candidate.v))
             ELSE DedupLoop(Tail(cands), seen, unique)

UniqueCandidates(cands) == DedupLoop(cands, {}, <<>>)

\* "Filter candidates by length and format them", with its break
RECURSIVE FilterLoop(_, _, _, _)
FilterLoop(cands, matching_entries, target_length, cap) ==
    IF cands = <<>> THEN matching_entries
    ELSE LET candidate == Head(cands)
             formatted == RemoveSpaces(Upper(candidate))
         IN  IF Len(formatted) = target_length
             THEN LET display_candidate == Upper(candidate)
                      m == IF display_candidate \notin Range(matching_entries)
                           THEN Append(matching_entries, display_candidate)
                           ELSE matching_entries
                  IN  IF Len(m) >= cap THEN m
                      ELSE FilterLoop(Tail(cands), m, target_length, cap)
             ELSE FilterLoop(Tail(cands), matching_entries, target_length, cap)

\* the filter without the "not in matching_entries" test
RECURSIVE FilterLoopNoTest(_, _, _, _)
FilterLoopNoTest(cands, matching_entries, target_length, cap) ==
    IF cands = <<>> THEN matching_entries
    ELSE LET candidate == Head(cands)
             formatted == RemoveSpaces(Upper(candidate))
         IN  IF Len(formatted) = target_length
             THEN LET m == Append(matching_entries, Upper(candidate))
                  IN  IF Len(m) >= cap THEN m
                      ELSE FilterLoopNoTest(Tail(cands), m, target_length, cap)
             ELSE FilterLoopNoTest(Tail(cands), matching_entries, target_length, cap)

MatchingEntries_no_display_test(unique_candidates, target_length, cap) ==
    FilterLoopNoTest(unique_candidates, <<>>, target_length, cap)

MatchingEntries(unique_candidates, target_length, cap) ==
    FilterLoop(unique_candidates, <<>>, target_length, cap)

CleanPhrase(p) == Lower(Strip(p))
TargetLength(p) == Len(RemoveSpaces(CleanPhrase(p)))

\* entry of generate_theme_entries, up to the first urlopen
GenerateCall ==
    /\ pc = "generate_theme_entries"
    /\ results' = [base_entry |-> Upper(phrase),
                   target_length |-> TargetLength(phrase),
                   generated_entries |-> <<>>,
                   error |-> PyNone]
    /\ words' = Split(CleanPhrase(phrase))
    /\ widx' = 1
    /\ all_candidates' = <<>>
    /\ pc' = IF Split(CleanPhrase(phrase)) = <<>> THEN "gen_topic" ELSE "gen_word_ml"
    /\ UNCHANGED <<lookups, outcome>>
    /\ ClientUnchanged

\* leaving the try block of generate_theme_entries with exception e
GenerateFail(e) ==
    LET h == GenerateHandler(e)
    IN  /\ results' = [results EXCEPT !.error = h.error]
        /\ outcome' = IF h.caught THEN "returned" ELSE "raised"
        /\ pc' = "done"

\* a urlopen of generate_theme_entries whose truthy words are appended to
\* all_candidates; the last one is followed by the de-duplication and the filter
GenerateLookup(mode, query, max, next, nextidx, last) ==
    \/ \E e \in LookupFailures :
         /\ lookups' = Append(lookups, Lookup(mode, query, max, TRUE))
         /\ GenerateFail(e)
         /\ UNCHANGED <<all_candidates, widx>>
    \/ \E data \in Responses :
         LET r == ReadWords(data, <<>>)
             all == all_candidates \o r.words
             u == UniqueCandidates(all)
         IN  /\ all_candidates' = all
             /\ lookups' = Append(lookups, Lookup(mode, query, max, r.exc # NoExc))
             /\ IF r.exc # NoExc
                THEN GenerateFail(r.exc) /\ UNCHANGED widx
                ELSE IF ~last
                THEN /\ pc' = next
                     /\ widx' = nextidx
                     /\ UNCHANGED <<results, outcome>>
                ELSE IF u.exc # NoExc
                THEN GenerateFail(u.exc) /\ UNCHANGED widx
                ELSE /\ results' =
                          [results EXCEPT !.generated_entries =
                              MatchingEntries(u.unique, results.target_length, max_results)]
                     /\ outcome' = "returned"
                     /\ pc' = "done"
                     /\ UNCHANGED widx

GenerateWordSynonyms ==
    /\ pc = "gen_word_ml"
    /\ GenerateLookup("ml", words[widx], 30, "gen_word_rel_trg", widx, FALSE)
    /\ UNCHANGED words
    /\ ClientUnchanged

GenerateWordRelated ==
    /\ pc = "gen_word_rel_trg"
    /\ GenerateLookup("rel_trg", words[widx], 30,
                      IF widx < Len(words) THEN "gen_word_ml" ELSE "gen_topic",
                      widx + 1, FALSE)
    /\ UNCHANGED words
    /\ ClientUnchanged

GenerateTopic ==
    /\ pc = "gen_topic"
    /\ GenerateLookup("ml", CleanPhrase(phrase), 50, "done", widx, TRUE)
    /\ UNCHANGED words
    /\ ClientUnchanged

(***************************************************************************)
(* Direct calls of validate_entry_length and analyze_theme.                *)
(***************************************************************************)
OtherUnchanged == UNCHANGED <<frame, argv, exit_code, phrase, max_results, words,
                              widx, all_candidates, lookups, results, handled>>

Validate ==
    /\ pc = "validate_entry_length"
    /\ validation' = validate_entry_length(entry)
    /\ pc' = "done"
    /\ outcome' = "returned"
    /\ UNCHANGED <<entry, entries, report>>
    /\ OtherUnchanged

Analyze ==
    /\ pc = "analyze_theme"
    /\ report' = analyze_theme(entries)
    /\ pc' = "done"
    /\ outcome' = "returned"
    /\ UNCHANGED <<entry, validation, entries>>
    /\ OtherUnchanged

(***************************************************************************)
(* main()                                                                  *)
(***************************************************************************)
\* the if / elif chain over the parsed arguments
Command_by_presence(args) ==
    IF Truthy(args.guidelines) THEN "guidelines"
    ELSE IF args.analyze.type # "NoneType" THEN "analyze"
    ELSE IF args.wordplay.type # "NoneType" THEN "wordplay"
    ELSE IF args.generate_theme.type # "NoneType" THEN "generate_theme"
    ELSE "help"

Command(args) ==
    IF Truthy(args.guidelines) THEN "guidelines"
    ELSE IF Truthy(args.analyze) THEN "analyze"
    ELSE IF Truthy(args.wordplay) THEN "wordplay"
    ELSE IF Truthy(args.generate_theme) THEN "generate_theme"
    ELSE "help"

MainUnchanged == UNCHANGED <<frame, argv, entry, validation, report, words, widx,
                             all_candidates, lookups, results, outcome>>

MainGuidelines ==
    /\ pc = "main" /\ Command(argv) = "guidelines"
    /\ handled' = Append(handled, "guidelines")
    /\ exit_code' = 0
    /\ pc' = "exit"
    /\ UNCHANGED <<entries, phrase, max_results>>
    /\ MainUnchanged

MainAnalyze ==
    /\ pc = "main" /\ Command(argv) = "analyze"
    /\ handled' = Append(handled, "analyze")
    /\ entries' = argv.analyze.v
    /\ pc' = "analyze_theme"
    /\ UNCHANGED <<exit_code, phrase, max_results>>
    /\ MainUnchanged

MainWordplay ==
    /\ pc = "main" /\ Command(argv) = "wordplay"
    /\ handled' = Append(handled, "wordplay")
    /\ phrase' = argv.wordplay.v
    /\ pc' = "suggest_wordplay"
    /\ UNCHANGED <<exit_code, entries, max_results>>
    /\ MainUnchanged

MainGenerate ==
    /\ pc = "main" /\ Command(argv) = "generate_theme"
    /\ handled' = Append(handled, "generate_theme")
    /\ phrase' = argv.generate_theme.v
    /\ max_results' = DEFAULT_MAX_RESULTS
    /\ pc' = "generate_theme_entries"
    /\ UNCHANGED <<exit_code, entries>>
    /\ MainUnchanged

MainHelp ==
    /\ pc = "main" /\ Command(argv) = "help"
    /\ handled' = Append(handled, "help")
    /\ exit_code' = 1
    /\ pc' = "exit"
    /\ UNCHANGED <<entries, phrase, max_results>>
    /\ MainUnchanged

\* the called operation returned: its result is shown and main returns 0
MainReturn ==
    /\ frame = "main" /\ pc = "done" /\ outcome = "returned"
    /\ exit_code' = 0
    /\ pc' = "exit"
    /\ UNCHANGED <<entries, phrase, max_results, handled>>
    /\ MainUnchanged

(***************************************************************************)
(* Inputs.                                                                 *)
(***************************************************************************)
SeqsUpTo(S, n) == UNION {[1..k -> S] : k \in 0..n}

ValidateInputs ==
    { pre \o Rep(c, n) \o suf :
        pre \in SeqsUpTo(Alphabet, MaxAffix), suf \in SeqsUpTo(Alphabet, MaxAffix),
        c \in Letters, n \in 0..MaxRun }

EntryPool ==
    { Rep("S", 8),
      Rep("s", 4) \o <<SPACE>> \o Rep("s", 5),
      Rep("s", 10),
      Rep("S", 11),
      Rep("s", 4) \o <<"ß">> \o Rep("s", 2) }

BasePhrases ==
    { <<>>, <<"s", "S">>, <<"ß">>, <<SPACE, "s", SPACE, "S", TAB>> }

NoArgs == [guidelines |-> Bool(FALSE), analyze |-> PyNone, wordplay |-> PyNone,
           generate_theme |-> PyNone]

\* the namespaces parse_args can return
Namespaces ==
    [guidelines : {Bool(FALSE), Bool(TRUE)},
     analyze : {PyNone, List(<<<<>>>>), List(<<Rep("S", 8)>>),
                List(<<Rep("S", 8), <<"ß">>>>)},
     wordplay : {PyNone, Str(<<>>), Str(<<"s", "S">>)},
     generate_theme : {PyNone, Str(<<>>), Str(<<"s", SPACE, "ß">>)}]

(***************************************************************************)
(* The program: main() on a parsed command line.                           *)
(***************************************************************************)
Init ==
    /\ frame = "main" /\ pc = "main"
    /\ argv \in Namespaces
    /\ exit_code = NoExit /\ handled = <<>>
    /\ entry = <<>> /\ validation = Undefined
    /\ entries = <<>> /\ report = Undefined
    /\ phrase = <<>> /\ max_results = DEFAULT_MAX_RESULTS
    /\ words = <<>> /\ widx = 1 /\ all_candidates = <<>>
    /\ lookups = <<>> /\ results = Undefined
    /\ outcome = "running"

ClientNext ==
    \/ WordplayCall \/ WordplaySynonyms \/ WordplayRelated
    \/ GenerateCall \/ GenerateWordSynonyms \/ GenerateWordRelated \/ GenerateTopic

Next ==
    \/ MainGuidelines \/ MainAnalyze \/ MainWordplay \/ MainGenerate \/ MainHelp
    \/ Analyze
    \/ ClientNext
    \/ MainReturn

Spec == Init /\ [][Next]_vars

(***************************************************************************)
(* Direct calls of the ThemeHelper operations, on inputs from bounded sets.*)
(***************************************************************************)
InitValidate ==
    /\ frame = "direct" /\ pc = "validate_entry_length"
    /\ entry \in ValidateInputs
    /\ argv = NoArgs /\ exit_code = NoExit /\ handled = <<>>
    /\ validation = Undefined
    /\ entries = <<>> /\ report = Undefined
    /\ phrase = <<>> /\ max_results = DEFAULT_MAX_RESULTS
    /\ words = <<>> /\ widx = 1 /\ all_candidates = <<>>
    /\ lookups = <<>> /\ results = Undefined
    /\ outcome = "running"

SpecValidate == InitValidate /\ [][Validate]_vars

InitAnalyze ==
    /\ frame = "direct" /\ pc = "analyze_theme"
    /\ entries \in SeqsUpTo(EntryPool, MaxEntries)
    /\ argv = NoArgs /\ exit_code = NoExit /\ handled = <<>>
    /\ entry = <<>> /\ validation = Undefined
    /\ report = Undefined
    /\ phrase = <<>> /\ max_results = DEFAULT_MAX_RESULTS
    /\ words = <<>> /\ widx = 1 /\ all_candidates = <<>>
    /\ lookups = <<>> /\ results = Undefined
    /\ outcome = "running"

SpecAnalyze == InitAnalyze /\ [][Analyze]_vars

InitClient ==
    /\ frame = "direct"
    /\ phrase \in BasePhrases
    /\ \/ pc = "suggest_wordplay" /\ max_results = DEFAULT_MAX_RESULTS
       \/ /\ pc = "generate_theme_entries"
          /\ max_results \in (0..MaxResultsBound) \cup {DEFAULT_MAX_RESULTS}
    /\ argv = NoArgs /\ exit_code = NoExit /\ handled = <<>>
    /\ entry = <<>> /\ validation = Undefined
    /\ entries = <<>> /\ report = Undefined
    /\ words = <<>> /\ widx = 1 /\ all_candidates = <<>>
    /\ lookups = <<>> /\ results = Undefined
    /\ outcome = "running"

SpecClient == InitClient /\ [][ClientNext]_vars

(***************************************************************************)
(* Properties.                                                             *)
(***************************************************************************)
\* the number of characters of s that are not the space character
CleanedLength(s) == Cardinality({i \in DOMAIN s : s[i] # SPACE})

Returned == pc = "done" /\ outcome = "returned"

\* C1: validate_entry_length(entry) is valid exactly when the number L of
\* non-space characters of entry is within MIN_ENTRY_LENGTH..MAX_ENTRY_LENGTH;
\* below it reports "too short", above it "too long", each with L.
C1_ValidateEntryLength ==
    (frame = "direct" /\ Returned) =>
        LET L == CleanedLength(entry)
        IN  /\ validation.valid <=> (MIN_ENTRY_LENGTH <= L /\ L <= MAX_ENTRY_LENGTH)
            /\ validation.message.length = L
            /\ L < MIN_ENTRY_LENGTH => validation.message.kind = "too short"
            /\ L > MAX_ENTRY_LENGTH => validation.message.kind = "too long"
            /\ validation.valid => validation.message.kind = "good length"

\* an entry of 15 letters and a space was validated
C1_Witness ==
    /\ frame = "direct" /\ Returned
    /\ CleanedLength(entry) = MAX_ENTRY_LENGTH
    /\ Len(entry) > MAX_ENTRY_LENGTH
    /\ validation.valid

\* C2: the report has entry_count = number of entries, one record per entry
\* in input order, and total_length = the sum of the entries' cleaned lengths
\* (characters with the spaces removed).
C2_TotalLength ==
    (frame = "direct" /\ Returned) =>
        /\ report.entry_count = Len(entries)
        /\ Len(report.entries) = Len(entries)
        /\ \A i \in DOMAIN entries : report.entries[i].text = entries[i]
        /\ report.total_length =
               SumSeq([i \in DOMAIN entries |-> CleanedLength(entries[i])])

CountKinds == {"add more entries", "many entries"}

\* C3: exactly one entry-count warning below MIN_THEME_ENTRIES ("add more
\* entries") and above MAX_THEME_ENTRIES ("many entries"), none for 4 and 5;
\* the empty list gives entry_count 0 and "add more entries"; a count warning
\* comes before the symmetry warning.
C3_CountWarning ==
    (frame = "direct" /\ Returned) =>
        LET n == Len(entries)
            w == report.warnings
            count_at == {i \in DOMAIN w : w[i].kind \in CountKinds}
        IN  /\ report.entry_count = n
            /\ n < MIN_THEME_ENTRIES =>
                   /\ Cardinality(count_at) = 1
                   /\ \A i \in count_at : w[i].kind = "add more entries"
            /\ n > MAX_THEME_ENTRIES =>
                   /\ Cardinality(count_at) = 1
                   /\ \A i \in count_at : w[i].kind = "many entries" /\ w[i].detail = <<n>>
            /\ (MIN_THEME_ENTRIES <= n /\ n <= MAX_THEME_ENTRIES) => count_at = {}
            /\ \A i \in count_at : \A j \in DOMAIN w : j \notin count_at => i < j

\* six entries were analysed and brought a count warning and a pairing warning
C3_Witness ==
    /\ frame = "direct" /\ Returned
    /\ Len(entries) = MAX_THEME_ENTRIES + 1
    /\ Len(report.warnings) = 2
    /\ report.warnings[2].kind = "unpaired lengths"

C10_RecordedLength ==
    (frame = "direct" /\ Returned) =>
        \A i \in DOMAIN entries :
            LET r == report.entries[i]
            IN  /\ r.text = entries[i]
                /\ r.length = r.message.length
                /\ r.length = CleanedLength(entries[i])
                /\ r.valid <=> (MIN_ENTRY_LENGTH <= r.length /\ r.length <= MAX_ENTRY_LENGTH)

WordplayResult == "synonyms" \in DOMAIN results
GenerateResult == "generated_entries" \in DOMAIN results
ErrorSet == "error" \in DOMAIN results /\ results.error.type # "NoneType"
SomeLookupFailed == \E i \in DOMAIN lookups : lookups[i].failed

\* the number of non-space characters of p between its first and its last
\* non-whitespace character
TrimmedLetters(p) ==
    Cardinality({i \in DOMAIN p :
                    /\ p[i] # SPACE
                    /\ \E j \in 1..i : p[j] \notin Whitespace
                    /\ \E k \in i..Len(p) : p[k] \notin Whitespace})

\* the requests an operation makes when nothing fails, in order
Request(mode, query, max) == [mode |-> mode, query |-> query, max |-> max]
PlannedLookups ==
    IF WordplayResult
    THEN <<Request("ml", CleanPhrase(phrase), 15), Request("rel_trg", CleanPhrase(phrase), 15)>>
    ELSE [i \in 1..(2 * Len(words)) |->
             Request(IF i % 2 = 1 THEN "ml" ELSE "rel_trg", words[(i + 1) \div 2], 30)]
         \o <<Request("ml", CleanPhrase(phrase), 50)>>

\* C5: in the result of suggest_wordplay, a set error implies that synonyms
\* and related are both empty, whichever of the two lookups failed.
C5_ErrorExcludesLists ==
    (WordplayResult /\ ErrorSet) =>
        (results.synonyms = <<>> /\ results.related = <<>>)

\* C6 as stated: no exception escapes; after a failed lookup the operation
\* returns with a non-empty error and the failed lookup is the last one
\* issued (generate_theme_entries: no entries, target_length reported); when
\* no lookup fails, error is None.
C6_Original ==
    /\ outcome # "raised"
    /\ pc = "done" =>
        /\ outcome = "returned"
        /\ IF SomeLookupFailed
           THEN /\ ErrorSet /\ results.error.v # <<>>
                /\ \A i \in DOMAIN lookups : lookups[i].failed => i = Len(lookups)
                /\ GenerateResult =>
                       /\ results.generated_entries = <<>>
                       /\ results.target_length = TrimmedLetters(phrase)
           ELSE ~ErrorSet

\* C6, amended: no exception escapes; an error is a non-empty string and ends
\* the operation; the requests are a prefix of the planned ones (no retry); a
\* lookup that raised is the last one issued; generate_theme_entries then has
\* no entries and reports target_length; when no lookup raised, error is None
\* unless generate_theme_entries collected a word that is not a string: then
\* every planned lookup was issued and the error is reported the same way.
C6_FailureContained ==
    /\ outcome # "raised"
    /\ ErrorSet => (pc = "done" /\ results.error.type = "str" /\ results.error.v # <<>>)
    /\ (WordplayResult \/ GenerateResult) =>
           /\ Len(lookups) <= Len(PlannedLookups)
           /\ \A i \in DOMAIN lookups :
                  /\ Request(lookups[i].mode, lookups[i].query, lookups[i].max)
                         = PlannedLookups[i]
                  /\ lookups[i].failed => (i = Len(lookups) /\ ErrorSet)
    /\ (GenerateResult /\ ErrorSet) =>
           /\ results.generated_entries = <<>>
           /\ results.target_length = TrimmedLetters(phrase)
    /\ pc = "done" =>
           /\ outcome = "returned"
           /\ ~SomeLookupFailed =>
                  IF GenerateResult /\ \E i \in DOMAIN all_candidates :
                                           all_candidates[i].type # "str"
                  THEN ErrorSet /\ Len(lookups) = Len(PlannedLookups)
                  ELSE ~ErrorSet /\ Len(lookups) = Len(PlannedLookups)

\* the third of five lookups of generate_theme_entries failed
C6_Witness ==
    /\ pc = "done" /\ outcome = "returned" /\ GenerateResult
    /\ Len(words) = 2
    /\ Len(lookups) = 3 /\ lookups[3].failed
    /\ ErrorSet
    /\ all_candidates # <<>>

\* the index of the first candidate whose upper-case form is e
FirstIndex(e) ==
    CHOOSE i \in DOMAIN all_candidates :
        /\ Upper(all_candidates[i].v) = e
        /\ \A j \in 1..(i - 1) : Upper(all_candidates[j].v) # e

ExpectedEntries ==
    LET all == all_candidates
        first_seen == {i \in DOMAIN all :
                          \A j \in 1..(i - 1) : Lower(all[j].v) # Lower(all[i].v)}
        matching == {i \in first_seen :
                        CleanedLength(Upper(all[i].v)) = results.target_length}
        kept == {i \in matching :
                    \A j \in matching : j < i => Upper(all[j].v) # Upper(all[i].v)}
        order == Sorted(kept)
    IN  [k \in DOMAIN order |-> Upper(all[order[k]].v)]

C8_Cap ==
    (pc = "done" /\ GenerateResult) => Len(results.generated_entries) <= max_results

\* the command a command line selects: the first, in the order guidelines,
\* analyze, wordplay, generate_theme, of the flags that were given (wordplay
\* and generate_theme count as given only with a non-empty argument)
Selected ==
    IF argv.guidelines.v THEN "guidelines"
    ELSE IF argv.analyze.type = "list" THEN "analyze"
    ELSE IF argv.wordplay.type = "str" /\ argv.wordplay.v # <<>> THEN "wordplay"
    ELSE IF argv.generate_theme.type = "str" /\ argv.generate_theme.v # <<>>
    THEN "generate_theme"
    ELSE "help"

\* C9: main() handles exactly one command, the selected one, and returns 0
\* for it; it returns 1, after the help, only when no flag is selected; the
\* operation it calls always returns to it.
C9_ExitCode ==
    /\ Len(handled) <= 1
    /\ exit_code \in {NoExit, 0, 1}
    /\ handled # <<>> => handled = <<Selected>>
    /\ (frame = "main" /\ pc = "done") => outcome = "returned"
    /\ exit_code # NoExit <=> pc = "exit"
    /\ pc = "exit" =>
           /\ handled = <<Selected>>
           /\ exit_code = IF Selected = "help" THEN 1 ELSE 0

\* --wordplay "" --generate-theme "s ß": the generator ran, failed at a
\* lookup, and main returned 0
C9_Witness ==
    /\ pc = "exit" /\ exit_code = 0
    /\ argv.wordplay = Str(<<>>)
    /\ handled = <<"generate_theme">>
    /\ ErrorSet

====
